---- MODULE Spec2Model ----
(***************************************************************************)
(* Settlement layer of two1/lib/bitserv/payment_methods.py: the three      *)
(* payment methods OnChain, PaymentChannel and BitTransfer, their          *)
(* redeem_payment operations run by concurrent requests, and the           *)
(* collaborators they share (the on-chain ledger, the channel server, the  *)
(* broadcast provider and the BitTransfer verification server).            *)
(***************************************************************************)
EXTENDS Integers, Sequences, FiniteSets, TLC

(***************************************************************************)
(* Bounds of the model.                                                    *)
(***************************************************************************)
NumCalls == 3

Calls == 1..NumCalls

\* the prices of the resources requested
Prices == {1, 2}

(***************************************************************************)
(* Results of a redeem_payment call: its return value or the class of the  *)
(* exception it raises.                                                    *)
(***************************************************************************)
RetTrue == "True"
RetFalse == "False"
InsufficientPaymentError == "InsufficientPaymentError"
InvalidPaymentParameterError == "InvalidPaymentParameterError"
DuplicatePaymentError == "DuplicatePaymentError"
TransactionBroadcastError == "TransactionBroadcastError"
ServerError == "ServerError"
KeyError == "KeyError"
ValueError == "ValueError"
UnboundLocalError == "UnboundLocalError"
RedeemError == "RedeemError"
NoResult == "none"

VARIABLES
    calls,       \* the redeem_payment calls: arguments, position, result
    db,          \* OnChain.db: transaction hash -> price
    broadcasts,  \* provider.broadcast_transaction invocations per hash
    spent,       \* tokens the channel server has redeemed
    config,      \* what the methods' constructors stored
    request,     \* the request the dispatcher is serving
    updater      \* update_two1_package: the saved check date, the day, the call

(***************************************************************************)
(* Method configuration.                                                   *)
(***************************************************************************)
\* self.address = wallet.get_payout_address()
PayoutAddress == "addrA"
OtherAddress == "addrB"
\* kwargs carries no 'address' entry
NoAddress == "absent"
AddressKwargs == {NoAddress, OtherAddress}

\* kwargs.get('address', self.address)
EffectiveAddress(kw) == IF kw = NoAddress THEN config.address ELSE kw

\* the attributes set by OnChain.__init__, PaymentChannel.__init__ and
\* BitTransfer.__init__
ConfigAtConstruction ==
    [address          |-> PayoutAddress,
     seller_username  |-> "seller",
     verification_url |-> "host/pool/account/{}/bittransfer/",
     endpoint_path    |-> "/payment"]

(***************************************************************************)
(* Headers.  A request's headers are a mapping from header names to        *)
(* values; the names are the class attributes of the three methods.        *)
(***************************************************************************)
TransactionHeader == "Bitcoin-Transaction"
TokenHeader == "Bitcoin-Micropayment-Token"
TransferHeader == "Bitcoin-Transfer"
AuthorizationHeader == "Authorization"
PriceHeader == "Price"
AddressHeader == "Bitcoin-Address"
MicroServerHeader == "Bitcoin-Micropayment-Server"
UsernameHeader == "Username"

OnChainMethod == "onchain"
ChannelMethod == "channel"
TransferMethod == "transfer"
MethodNames == {OnChainMethod, ChannelMethod, TransferMethod}

\* the payment_headers property of each method
payment_headers(m) ==
    CASE m = OnChainMethod  -> {TransactionHeader}
      [] m = ChannelMethod  -> {TokenHeader}
      [] m = TransferMethod -> {TransferHeader, AuthorizationHeader}

\* a variant satisfied by any one of the headers
should_redeem_Any(m, request_headers) ==
    \E h \in payment_headers(m) : h \in DOMAIN request_headers

\* PaymentBase.should_redeem:
\* all(h in request_headers.keys() for h in self.payment_headers)
should_redeem(m, request_headers) ==
    \A h \in payment_headers(m) : h \in DOMAIN request_headers

\* kwargs['server_url'], which the dispatcher passes with every request
ServerUrl == "http://merchant"

\* a variant of the transfer method that leaves out the seller's name
get_402_headers_NoUsername(m, price, kw) ==
    CASE m = OnChainMethod ->
            (PriceHeader :> price) @@ (AddressHeader :> EffectiveAddress(kw))
      [] m = ChannelMethod ->
            (PriceHeader :> price)
                @@ (MicroServerHeader :> ServerUrl \o config.endpoint_path)
      [] m = TransferMethod ->
            (PriceHeader :> price) @@ (AddressHeader :> config.address)

\* get_402_headers of each method
get_402_headers(m, price, kw) ==
    CASE m = OnChainMethod ->
            (PriceHeader :> price) @@ (AddressHeader :> EffectiveAddress(kw))
      [] m = ChannelMethod ->
            (PriceHeader :> price)
                @@ (MicroServerHeader :> ServerUrl \o config.endpoint_path)
      [] m = TransferMethod ->
            (PriceHeader :> price) @@ (AddressHeader :> config.address)
                @@ (UsernameHeader :> config.seller_username)

\* the exception classes of lines 13-34 that derive from PaymentError
IsPaymentError(kind) ==
    kind \in {InsufficientPaymentError, InvalidPaymentParameterError,
              DuplicatePaymentError, TransactionBroadcastError}

(***************************************************************************)
(* On-chain evidence.  A raw payload is a hex string; Transaction.from_hex *)
(* raises on a payload that is no transaction and otherwise yields the     *)
(* transaction with its outputs and its hash.                              *)
(***************************************************************************)
RawTxs == {"zz", "0a", "0b", "0c"}
NoTx == [hash |-> "", outputs |-> <<>>]

Transaction_from_hex(raw) ==
    CASE raw = "0a" ->
            [hash |-> "h1", outputs |-> <<[address |-> "addrA", value |-> 1]>>]
      [] raw = "0b" ->
            [hash |-> "h2", outputs |-> <<[address |-> "addrB", value |-> 1],
                                          [address |-> "addrA", value |-> 2]>>]
      [] raw = "0c" ->
            [hash |-> "h3", outputs |-> <<[address |-> "addrB", value |-> 1]>>]
      [] OTHER -> NoTx

TxIds == {"h1", "h2", "h3"}

\* index of the first output paying the address, 0 for None
output_index_for_address(tx, address) ==
    LET hits == {i \in 1..Len(tx.outputs) : tx.outputs[i].address = address}
    IN  IF hits = {} THEN 0 ELSE CHOOSE i \in hits : \A j \in hits : i <= j

\* payment_tx.outputs[payment_index].value != price
AmountMismatch_Lenient(value, price) == value < price
AmountMismatch(value, price) == value # price

\* payment_index is None
NotPaidToMerchant(tx, address) == output_index_for_address(tx, address) = 0

\* The checks of OnChain.redeem_payment that precede the ledger: the error
\* raised, or "pass".
OnChainValidation_AnyOutput(price, raw_tx, kw) ==
    LET payment_tx == Transaction_from_hex(raw_tx)
    IN  IF payment_tx = NoTx THEN InvalidPaymentParameterError
        ELSE IF \A i \in 1..Len(payment_tx.outputs) :
                    AmountMismatch(payment_tx.outputs[i].value, price)
             THEN InsufficientPaymentError
        ELSE "pass"
OnChainValidation(price, raw_tx, kw) ==
    LET payment_tx    == Transaction_from_hex(raw_tx)
        address       == EffectiveAddress(kw)
        payment_index == output_index_for_address(payment_tx, address)
    IN  IF payment_tx = NoTx THEN InvalidPaymentParameterError
        ELSE IF NotPaidToMerchant(payment_tx, address)
             THEN InvalidPaymentParameterError
        ELSE IF AmountMismatch(payment_tx.outputs[payment_index].value, price)
             THEN InsufficientPaymentError
        ELSE "pass"

\* self.db.get_or_create(txid, price): one indivisible check-and-insert
get_or_create(ledger, txid, price) ==
    IF txid \in DOMAIN ledger
    THEN [db |-> ledger, new |-> FALSE]
    ELSE [db |-> [t \in DOMAIN ledger \cup {txid} |->
                     IF t = txid THEN price ELSE ledger[t]],
          new |-> TRUE]

\* if not new: raise DuplicatePaymentError
IsDuplicate_Ignored(new) == FALSE
IsDuplicate(new) == ~new

(***************************************************************************)
(* Channel evidence: tokens of the channel server.  server.redeem(token)   *)
(* returns the amount of an unspent token and spends it, and raises on an  *)
(* unknown or already spent token.                                         *)
(***************************************************************************)
Tokens == {"k1", "k2", "kx"}
TokenAmount(token) == CASE token = "k1" -> 1 [] token = "k2" -> 2 [] OTHER -> 0
KnownTokens == {"k1", "k2"}

server_redeem(spentTokens, token) ==
    IF token \in KnownTokens \ spentTokens
    THEN [raised |-> FALSE, amount |-> TokenAmount(token),
          spent |-> spentTokens \cup {token}]
    ELSE [raised |-> TRUE, amount |-> 0, spent |-> spentTokens]

(***************************************************************************)
(* Transfer evidence: the Bitcoin-Transfer header is a JSON text.          *)
(* json.loads raises ValueError on a text that is no JSON, and the         *)
(* subscript ["amount"] raises KeyError on an object without that key.     *)
(***************************************************************************)
BitTransfers == {"junk", "{}", "{amount:1}", "{amount:2}"}

json_loads(text) ==
    CASE text = "{}"         -> [json |-> TRUE,  amount |-> {}]
      [] text = "{amount:1}" -> [json |-> TRUE,  amount |-> {1}]
      [] text = "{amount:2}" -> [json |-> TRUE,  amount |-> {2}]
      [] OTHER               -> [json |-> FALSE, amount |-> {}]

\* json.loads(bittransfer)["amount"] == resource_price, or the exception
TransferAmountCheck_Skipped(bittransfer, price) ==
    LET obj == json_loads(bittransfer)
    IN  IF ~obj.json THEN ValueError
        ELSE IF obj.amount = {} THEN KeyError
        ELSE "pass"
TransferAmountCheck(bittransfer, price) ==
    LET obj == json_loads(bittransfer)
    IN  IF ~obj.json THEN ValueError
        ELSE IF obj.amount = {} THEN KeyError
        ELSE IF ~(obj.amount = {price}) THEN InsufficientPaymentError
        ELSE "pass"

(***************************************************************************)
(* What requests.post can do: raise ConnectionError, or return a response  *)
(* with its ok flag and body.  Of a body the code reads whether the text   *)
(* contains the substring "message", and the "message" member of the       *)
(* decoded JSON.                                                           *)
(***************************************************************************)
Messages == {"X", "Y"}
Bodies ==
    \* {"message": m}
    {[substring |-> TRUE, json |-> TRUE, message |-> {m}] : m \in Messages}
    \cup
    {\* {"error": "denied"}
     [substring |-> FALSE, json |-> TRUE,  message |-> {}],
     \* {"error": "bad message"}
     [substring |-> TRUE,  json |-> TRUE,  message |-> {}],
     \* <html>error message</html>
     [substring |-> TRUE,  json |-> FALSE, message |-> {}],
     \* Internal Server Error
     [substring |-> FALSE, json |-> FALSE, message |-> {}]}

OkBody == [substring |-> FALSE, json |-> TRUE, message |-> {}]
\* requests.post raised ConnectionError
NoPost == [connected |-> FALSE, ok |-> FALSE, body |-> OkBody]
PostOutcomes ==
    {NoPost,
     [connected |-> TRUE,  ok |-> TRUE,  body |-> OkBody]}
    \cup {[connected |-> TRUE, ok |-> FALSE, body |-> b] : b \in Bodies}

\* lines 251-262: the result of the call and the message of its exception
TransferVerdict(post) ==
    IF post.connected /\ post.ok THEN [result |-> RetTrue, msg |-> ""]
    ELSE IF ~post.connected
         \* verification_response was never bound
         THEN [result |-> UnboundLocalError, msg |-> ""]
    ELSE IF post.body.substring
         THEN IF ~post.body.json THEN [result |-> ValueError, msg |-> ""]
              ELSE IF post.body.message = {} THEN [result |-> KeyError, msg |-> ""]
              ELSE [result |-> InvalidPaymentParameterError,
                    msg |-> CHOOSE m \in post.body.message : TRUE]
    ELSE [result |-> ServerError, msg |-> ""]

(***************************************************************************)
(* State.                                                                  *)
(***************************************************************************)
vars == <<calls, db, broadcasts, spent, config, request, updater>>

IdleCall ==
    [method |-> "none", price |-> 0, data |-> "", address |-> NoAddress,
     pc |-> "idle", result |-> NoResult, msg |-> "", posted |-> 0,
     tx |-> NoTx, post |-> NoPost, after |-> {}]

\* update_two1_package has not been called; the configuration file holds no
\* last_update_check
NoUpdate ==
    [last_update_check |-> "absent", today |-> 1, pc |-> "idle",
     outcome |-> "none", force |-> FALSE, day |-> 1, prior |-> FALSE,
     lookups |-> 0, installs |-> 0,
     update_available |-> FALSE, update_successful |-> "None",
     checkedOn |-> {}, failedOn |-> {}, unforced |-> {}, again |-> FALSE]

\* no request has arrived
NoRequest ==
    [state |-> "Unselected", headers |-> [h \in {} |-> ""], price |-> 0,
     address |-> NoAddress, selects |-> [m \in {} |-> FALSE],
     selected |-> "none", call |-> 0, advert |-> [h \in {} |-> ""],
     surfaced |-> NoResult]

Init ==
    /\ calls = [c \in Calls |-> IdleCall]
    /\ db = [t \in {} |-> 0]
    /\ broadcasts = [t \in TxIds |-> 0]
    /\ spent = {}
    /\ config = ConfigAtConstruction
    /\ request = NoRequest
    /\ updater = NoUpdate

\* calls are numbered in the order they arrive
MayStart(c) ==
    /\ calls[c].pc = "idle"
    /\ IF c = 1 THEN TRUE ELSE calls[c - 1].pc # "idle"

\* the calls with the same evidence that had returned when this one arrives
Returned(method, data) ==
    {d \in Calls : /\ calls[d].pc = "done"
                   /\ calls[d].method = method
                   /\ calls[d].data = data}

Finish(c, result, msg) ==
    [calls EXCEPT ![c].pc = "done", ![c].result = result, ![c].msg = msg]

(***************************************************************************)
(* OnChain.redeem_payment                                                  *)
(***************************************************************************)
\* a variant that records the payment before it compares the amount
OnChainEnter_RecordBeforeAmount(c, price, raw_tx, kw) ==
    /\ LET arrived == [IdleCall EXCEPT !.method = "onchain", !.price = price,
                           !.data = raw_tx, !.address = kw,
                           !.after = Returned("onchain", raw_tx),
                           !.tx = Transaction_from_hex(raw_tx)]
           verdict == OnChainValidation(price, raw_tx, kw)
       IN  /\ calls' = [calls EXCEPT ![c] =
                 IF verdict = "pass"
                 THEN [arrived EXCEPT !.pc = "get_or_create"]
                 ELSE [arrived EXCEPT !.pc = "done", !.result = verdict]]
           /\ db' = IF verdict = InsufficientPaymentError
                    THEN get_or_create(db, arrived.tx.hash, price).db
                    ELSE db
    /\ UNCHANGED <<broadcasts, spent, config>>

\* a variant that keeps the address of the request as the payout address
OnChainEnter_StoresAddress(c, price, raw_tx, kw) ==
    /\ LET arrived == [IdleCall EXCEPT !.method = "onchain", !.price = price,
                           !.data = raw_tx, !.address = kw,
                           !.after = Returned("onchain", raw_tx),
                           !.tx = Transaction_from_hex(raw_tx)]
           verdict == OnChainValidation(price, raw_tx, kw)
       IN  calls' = [calls EXCEPT ![c] =
               IF verdict = "pass"
               THEN [arrived EXCEPT !.pc = "get_or_create"]
               ELSE [arrived EXCEPT !.pc = "done", !.result = verdict]]
    /\ config' = [config EXCEPT !.address = EffectiveAddress(kw)]
    /\ UNCHANGED <<db, broadcasts, spent>>

\* lines 117-133: parse, destination and amount checks
OnChainEnter(c, price, raw_tx, kw) ==
    /\ LET arrived == [IdleCall EXCEPT !.method = "onchain", !.price = price,
                           !.data = raw_tx, !.address = kw,
                           !.after = Returned("onchain", raw_tx),
                           !.tx = Transaction_from_hex(raw_tx)]
           verdict == OnChainValidation(price, raw_tx, kw)
       IN  calls' = [calls EXCEPT ![c] =
               IF verdict = "pass"
               THEN [arrived EXCEPT !.pc = "get_or_create"]
               ELSE [arrived EXCEPT !.pc = "done", !.result = verdict]]
    /\ UNCHANGED <<db, broadcasts, spent, config>>

\* a redeem_payment call made directly, with any arguments
OnChainValidate(c) ==
    /\ MayStart(c)
    /\ \E price \in Prices, raw_tx \in RawTxs, kw \in AddressKwargs :
         OnChainEnter(c, price, raw_tx, kw)
    /\ UNCHANGED <<request, updater>>

\* a variant that broadcasts before it consults the ledger
OnChainGetOrCreate_BroadcastFirst(c) ==
    /\ calls[c].pc = "get_or_create"
    /\ LET txid == calls[c].tx.hash
           got  == get_or_create(db, txid, calls[c].price)
       IN  /\ broadcasts' = [broadcasts EXCEPT ![txid] = @ + 1]
           /\ \E accepted \in BOOLEAN :
                IF accepted
                THEN /\ db' = got.db
                     /\ calls' = Finish(c, IF IsDuplicate(got.new)
                                           THEN DuplicatePaymentError
                                           ELSE RetTrue, "")
                ELSE /\ db' = db
                     /\ calls' = Finish(c, TransactionBroadcastError, "")
    /\ UNCHANGED <<spent, config, request, updater>>

\* lines 135-138: record the payment, reject the one seen before
OnChainGetOrCreate(c) ==
    /\ calls[c].pc = "get_or_create"
    /\ LET txid == calls[c].tx.hash
           got  == get_or_create(db, txid, calls[c].price)
       IN  /\ db' = got.db
           /\ calls' = IF IsDuplicate(got.new)
                       THEN Finish(c, DuplicatePaymentError, "")
                       ELSE [calls EXCEPT ![c].pc = "broadcast"]
    /\ UNCHANGED <<broadcasts, spent, config, request, updater>>

\* lines 140-147: broadcast, which the provider accepts or fails
OnChainBroadcast_Rollback(c) ==
    /\ calls[c].pc = "broadcast"
    /\ LET txid == calls[c].tx.hash
       IN  /\ broadcasts' = [broadcasts EXCEPT ![txid] = @ + 1]
           /\ \E accepted \in BOOLEAN :
                /\ calls' = Finish(c, IF accepted THEN RetTrue
                                      ELSE TransactionBroadcastError, "")
                /\ db' = IF accepted THEN db
                         ELSE [t \in DOMAIN db \ {txid} |-> db[t]]
    /\ UNCHANGED <<spent, config, request, updater>>
OnChainBroadcast(c) ==
    /\ calls[c].pc = "broadcast"
    /\ LET txid == calls[c].tx.hash
       IN  /\ broadcasts' = [broadcasts EXCEPT ![txid] = @ + 1]
           /\ \E accepted \in BOOLEAN :
                calls' = Finish(c, IF accepted THEN RetTrue
                                   ELSE TransactionBroadcastError, "")
    /\ UNCHANGED <<db, spent, config, request, updater>>

(***************************************************************************)
(* PaymentChannel.redeem_payment                                           *)
(***************************************************************************)
\* a variant that raises on an amount mismatch
ChannelOutcome_Raising(redeemed, price) ==
    IF redeemed.raised THEN RedeemError
    ELSE IF redeemed.amount = price THEN RetTrue
    ELSE InsufficientPaymentError

\* lines 176-185: "except Exception as e: raise e" re-raises what
\* server.redeem raised; otherwise validated is the amount comparison
ChannelOutcome(redeemed, price) ==
    IF redeemed.raised THEN RedeemError
    ELSE IF redeemed.amount = price THEN RetTrue
    ELSE RetFalse

\* a variant that compares the amount first and redeems a matching token
\* only
ChannelEnter_CompareFirst(c, price, txid) ==
    /\ LET arrived == [IdleCall EXCEPT !.method = "channel", !.price = price,
                           !.data = txid, !.pc = "done",
                           !.after = Returned("channel", txid)]
           redeemed == server_redeem(spent, txid)
       IN  IF ~redeemed.raised /\ redeemed.amount # price
           THEN /\ spent' = spent
                /\ calls' = [calls EXCEPT ![c] =
                      [arrived EXCEPT !.result = RetFalse]]
           ELSE /\ spent' = redeemed.spent
                /\ calls' = [calls EXCEPT ![c] =
                      [arrived EXCEPT !.result =
                          ChannelOutcome(redeemed, price)]]
    /\ UNCHANGED <<db, broadcasts, config>>

\* lines 173-185: redeem the token, then compare the amount
ChannelEnter(c, price, txid) ==
    /\ LET arrived == [IdleCall EXCEPT !.method = "channel", !.price = price,
                           !.data = txid, !.pc = "done",
                           !.after = Returned("channel", txid)]
           redeemed == server_redeem(spent, txid)
       IN  /\ spent' = redeemed.spent
           /\ calls' = [calls EXCEPT ![c] =
                 [arrived EXCEPT !.result = ChannelOutcome(redeemed, price)]]
    /\ UNCHANGED <<db, broadcasts, config>>

\* a redeem_payment call made directly, with any arguments
ChannelRedeem(c) ==
    /\ MayStart(c)
    /\ \E price \in Prices, txid \in Tokens : ChannelEnter(c, price, txid)
    /\ UNCHANGED <<request, updater>>

(***************************************************************************)
(* BitTransfer.redeem_payment                                              *)
(***************************************************************************)
\* lines 222-237: decode the transfer and compare its amount
TransferEnter(c, price, bittransfer) ==
    /\ LET arrived == [IdleCall EXCEPT !.method = "transfer", !.price = price,
                           !.data = bittransfer,
                           !.after = Returned("transfer", bittransfer)]
           verdict == TransferAmountCheck(bittransfer, price)
       IN  calls' = [calls EXCEPT ![c] =
               IF verdict = "pass"
               THEN [arrived EXCEPT !.pc = "verify"]
               ELSE [arrived EXCEPT !.pc = "done", !.result = verdict]]
    /\ UNCHANGED <<db, broadcasts, spent, config>>

\* a redeem_payment call made directly, with any arguments
TransferCheckAmount(c) ==
    /\ MayStart(c)
    /\ \E price \in Prices, bittransfer \in BitTransfers :
         TransferEnter(c, price, bittransfer)
    /\ UNCHANGED <<request, updater>>

\* lines 239-262: ask the verification server and read its answer
TransferVerify(c) ==
    /\ calls[c].pc = "verify"
    /\ \E post \in PostOutcomes :
         LET verdict == TransferVerdict(post)
         IN  calls' = [calls EXCEPT ![c].pc = "done",
                                    ![c].posted = @ + 1,
                                    ![c].post = post,
                                    ![c].result = verdict.result,
                                    ![c].msg = verdict.msg]
    /\ UNCHANGED <<db, broadcasts, spent, config, request, updater>>

(***************************************************************************)
(* The dispatcher.  It holds the methods in a fixed order and takes each   *)
(* request through Unselected, Selecting, Redeeming and one of the         *)
(* terminal states.  One request is followed, arriving at a server whose   *)
(* ledger and channel server hold what earlier requests left there.        *)
(***************************************************************************)
Methods == <<OnChainMethod, ChannelMethod, TransferMethod>>

RawValues == RawTxs \cup Tokens \cup BitTransfers \cup {"sig"}

\* the values a client may send under a header name
HeaderValues(h) ==
    CASE h = TransactionHeader   -> RawTxs
      [] h = TokenHeader         -> Tokens
      [] h = TransferHeader      -> BitTransfers
      [] h = AuthorizationHeader -> {"sig"}

RequestHeaderNames ==
    {TransactionHeader, TokenHeader, TransferHeader, AuthorizationHeader}

\* the header mappings of the requests
RequestHeaders ==
    UNION {{f \in [S -> RawValues] : \A h \in S : f[h] \in HeaderValues(h)} :
              S \in SUBSET RequestHeaderNames}

TerminalStates == {"Settled", "Rejected", "AwaitingPayment", "Failed"}

\* the methods that select the headers, by their place in the order
Selecting(request_headers) ==
    {i \in DOMAIN Methods : should_redeem(Methods[i], request_headers)}

\* a variant that takes the last method that selects the headers
FirstSelecting_Last(request_headers) ==
    LET S == Selecting(request_headers)
    IN  Methods[CHOOSE i \in S : \A j \in S : j <= i]

\* the first method, in the order, that selects the headers
FirstSelecting(request_headers) ==
    LET S == Selecting(request_headers)
    IN  Methods[CHOOSE i \in S : \A j \in S : i <= j]

\* dict.update: the entries of g replace those of f
Update(f, g) ==
    [h \in DOMAIN f \cup DOMAIN g |-> IF h \in DOMAIN g THEN g[h] ELSE f[h]]

\* the headers of every method from place i on, merged into one mapping
RECURSIVE Aggregate(_, _, _)
Aggregate(i, price, kw) ==
    IF i > Len(Methods) THEN [h \in {} |-> ""]
    ELSE Update(get_402_headers(Methods[i], price, kw),
                Aggregate(i + 1, price, kw))

\* the price at which a redeem of the transaction records it: the value of
\* its first output
RecordedPrice(raw) == Transaction_from_hex(raw).outputs[1].value

\* the ledger after the redeems of the transactions in raws
LedgerAfter(raws) ==
    LET txids == {Transaction_from_hex(raw).hash : raw \in raws}
    IN  [t \in txids |->
            LET raw == CHOOSE r \in raws : Transaction_from_hex(r).hash = t
            IN  RecordedPrice(raw)]

\* the server when the request arrives: some transactions were redeemed and
\* broadcast, some tokens were spent
InitDispatch ==
    /\ calls = [c \in Calls |-> IdleCall]
    /\ \E raws \in SUBSET {r \in RawTxs : Transaction_from_hex(r) # NoTx} :
         /\ db = LedgerAfter(raws)
         /\ broadcasts = [t \in TxIds |-> IF t \in DOMAIN db THEN 1 ELSE 0]
    /\ spent \in SUBSET KnownTokens
    /\ config = ConfigAtConstruction
    /\ request = NoRequest
    /\ updater = NoUpdate

\* Unselected -> Selecting: a request arrives
Arrive ==
    /\ request.state = "Unselected"
    /\ \E hs \in RequestHeaders, price \in Prices, kw \in AddressKwargs :
         request' = [NoRequest EXCEPT !.state = "Selecting", !.headers = hs,
                                      !.price = price, !.address = kw]
    /\ UNCHANGED <<calls, db, broadcasts, spent, config, updater>>

\* Selecting -> Redeeming or AwaitingPayment: should_redeem of every method;
\* with none selecting, the answer is the aggregated advertisement
Select ==
    /\ request.state = "Selecting"
    /\ LET selects == [m \in MethodNames |-> should_redeem(m, request.headers)]
       IN  request' =
             IF \E m \in MethodNames : selects[m]
             THEN [request EXCEPT !.selects = selects, !.state = "Redeeming",
                                  !.selected = FirstSelecting(request.headers)]
             ELSE [request EXCEPT !.selects = selects,
                                  !.state = "AwaitingPayment",
                                  !.advert = Aggregate(1, request.price,
                                                       request.address)]
    /\ UNCHANGED <<calls, db, broadcasts, spent, config, updater>>

\* Redeeming: the selected method's redeem_payment is called with the
\* request's headers; a header it reads and does not find is a KeyError
DispatchRedeem ==
    /\ request.state = "Redeeming" /\ request.call = 0
    /\ UNCHANGED updater
    /\ \E c \in Calls :
         /\ MayStart(c)
         /\ request' = [request EXCEPT !.call = c]
         /\ LET hs == request.headers
                m  == request.selected
            IN  IF ~(payment_headers(m) \subseteq DOMAIN hs)
                THEN /\ calls' = [calls EXCEPT ![c] =
                           [IdleCall EXCEPT !.method = m, !.pc = "done",
                                            !.price = request.price,
                                            !.result = KeyError]]
                     /\ UNCHANGED <<db, broadcasts, spent, config>>
                ELSE CASE m = OnChainMethod ->
                            OnChainEnter(c, request.price,
                                         hs[TransactionHeader], request.address)
                       [] m = ChannelMethod ->
                            ChannelEnter(c, request.price, hs[TokenHeader])
                       [] m = TransferMethod ->
                            TransferEnter(c, request.price, hs[TransferHeader])

\* Redeeming -> Settled, Rejected: redeem_payment returned or raised; an
\* exception that is no PaymentError, or a False, leaves the request Failed
Return ==
    /\ request.state = "Redeeming" /\ request.call # 0
    /\ calls[request.call].pc = "done"
    /\ LET result == calls[request.call].result
       IN  request' = [request EXCEPT
               !.surfaced = result,
               !.state = IF result = RetTrue THEN "Settled"
                         ELSE IF IsPaymentError(result) THEN "Rejected"
                         ELSE "Failed"]
    /\ UNCHANGED <<calls, db, broadcasts, spent, config, updater>>

(***************************************************************************)
(* two1/lib/update.py: update_two1_package.  The calls are made one after  *)
(* the other by the command line; the day may change at any moment.  Days  *)
(* are the days of one month, counted from 1.                              *)
(***************************************************************************)
MaxDay == 3

Days == 1..MaxDay

\* update_date.strftime("%Y-%m-%d")
strftime(d) ==
    IF d < 10 THEN "2016-01-0" \o ToString(d) ELSE "2016-01-" \o ToString(d)

\* datetime.strptime(text, "%Y-%m-%d").date(): the day, or 0 for the
\* ValueError raised on a text that is no date
strptime(text) ==
    LET hits == {d \in 1..31 : strftime(d) = text}
    IN  IF hits = {} THEN 0 ELSE CHOOSE d \in hits : TRUE

\* what config.last_update_check may hold when the program starts: nothing,
\* a text that is no date, or a saved date
StoredValues == {"absent", "junk"} \cup {strftime(d) : d \in Days}

\* a variant that takes a check made today for one made before today
checked_for_an_update_today_NotToday(last_update_check, today_date) ==
    IF last_update_check = "absent" THEN RetFalse
    ELSE IF strptime(last_update_check) = 0 THEN ValueError
    ELSE IF today_date >= strptime(last_update_check) THEN RetFalse
    ELSE RetTrue

\* lines 102-127: True, False, or the ValueError of strptime, which the
\* except clause for AttributeError does not catch
checked_for_an_update_today(last_update_check, today_date) ==
    IF last_update_check = "absent" THEN RetFalse
    ELSE IF strptime(last_update_check) = 0 THEN ValueError
    ELSE IF today_date > strptime(last_update_check) THEN RetFalse
    ELSE RetTrue

\* versions, as the lists of numbers LooseVersion compares
InstalledVersion == <<0, 2>>
Versions == {<<0, 1>>, <<0, 2>>, <<0, 10>>}

\* LooseVersion(a) > LooseVersion(b)
LooseVersionGreater(a, b) ==
    \E i \in DOMAIN a :
        /\ a[i] > b[i]
        /\ \A j \in DOMAIN a : j < i => a[j] = b[j]

\* get_latest_version: it raises, or returns a version, or returns None
\* (the empty list) when the package found has another name
LatestVersions ==
    {[raised |-> TRUE, version |-> <<>>]}
        \cup {[raised |-> FALSE, version |-> v] : v \in Versions \cup {<<>>}}

\* lines 46-58: the decision whether to check, and set_update_check_date
UpdateStart ==
    /\ updater.pc = "idle"
    /\ \E force_update_check \in BOOLEAN :
         LET u       == updater
             checked == IF force_update_check THEN RetFalse
                        ELSE checked_for_an_update_today(u.last_update_check,
                                                         u.today)
             call    == [u EXCEPT !.force = force_update_check,
                                  !.day = u.today,
                                  !.prior = u.today \in u.checkedOn,
                                  !.lookups = 0, !.installs = 0,
                                  !.update_available = FALSE,
                                  !.update_successful = "None"]
         IN  updater' =
               IF checked = ValueError
               THEN [call EXCEPT !.outcome = "raised"]
               ELSE IF checked = RetTrue
               THEN [call EXCEPT !.outcome = "returned"]
               ELSE [call EXCEPT
                       !.last_update_check = strftime(u.today),
                       !.pc = "lookup", !.outcome = "running",
                       !.checkedOn = @ \cup {u.today},
                       !.unforced = IF force_update_check THEN @
                                    ELSE @ \cup {u.today},
                       !.again = @ \/ (~force_update_check
                                        /\ u.today \in u.unforced)]
    /\ UNCHANGED <<calls, db, broadcasts, spent, config, request>>

\* lines 60-64: get_latest_version and the comparison of the versions; an
\* exception of either leaves update_two1_package
UpdateLookup ==
    /\ updater.pc = "lookup"
    /\ \E latest \in LatestVersions :
         updater' =
           IF latest.raised \/ latest.version = <<>>
           THEN [updater EXCEPT !.lookups = @ + 1, !.pc = "idle",
                                !.outcome = "raised",
                                !.failedOn = @ \cup {updater.day}]
           ELSE IF LooseVersionGreater(latest.version, InstalledVersion)
           THEN [updater EXCEPT !.lookups = @ + 1, !.pc = "install",
                                !.update_available = TRUE]
           ELSE [updater EXCEPT !.lookups = @ + 1, !.pc = "idle",
                                !.outcome = "returned"]
    /\ UNCHANGED <<calls, db, broadcasts, spent, config, request>>

\* lines 69-77: perform_apt_based_update or perform_pip_based_update, which
\* return True or False
UpdateInstall ==
    /\ updater.pc = "install"
    /\ \E installed \in BOOLEAN :
         updater' = [updater EXCEPT
             !.installs = @ + 1, !.pc = "idle", !.outcome = "returned",
             !.update_successful = IF installed THEN RetTrue ELSE RetFalse,
             !.failedOn = IF installed THEN @ ELSE @ \cup {updater.day}]
    /\ UNCHANGED <<calls, db, broadcasts, spent, config, request>>

\* date.today() moves on
Tick ==
    /\ updater.today < MaxDay
    /\ updater' = [updater EXCEPT !.today = @ + 1]
    /\ UNCHANGED <<calls, db, broadcasts, spent, config, request>>

\* the program starts on some day with some configuration file
InitUpdate ==
    /\ calls = [c \in Calls |-> IdleCall]
    /\ db = [t \in {} |-> 0]
    /\ broadcasts = [t \in TxIds |-> 0]
    /\ spent = {}
    /\ config = ConfigAtConstruction
    /\ request = NoRequest
    /\ \E stored \in StoredValues, d \in Days :
         updater = [NoUpdate EXCEPT !.last_update_check = stored,
                                    !.today = d, !.day = d]

(***************************************************************************)
(* Specifications.                                                         *)
(***************************************************************************)
Next ==
    \E c \in Calls :
        \/ OnChainValidate(c)
        \/ OnChainGetOrCreate(c)
        \/ OnChainBroadcast(c)
        \/ ChannelRedeem(c)
        \/ TransferCheckAmount(c)
        \/ TransferVerify(c)

Spec == Init /\ [][Next]_vars

\* on-chain requests only
NextOnChain ==
    \E c \in Calls :
        \/ OnChainValidate(c)
        \/ OnChainGetOrCreate(c)
        \/ OnChainBroadcast(c)

SpecOnChain == Init /\ [][NextOnChain]_vars

\* channel requests only
NextChannel == \E c \in Calls : ChannelRedeem(c)

SpecChannel == Init /\ [][NextChannel]_vars

\* requests served by the dispatcher
NextDispatch ==
    \/ Arrive
    \/ Select
    \/ DispatchRedeem
    \/ \E c \in Calls :
          \/ OnChainGetOrCreate(c)
          \/ OnChainBroadcast(c)
          \/ TransferVerify(c)
    \/ Return

SpecDispatch == InitDispatch /\ [][NextDispatch]_vars

\* calls of update_two1_package
NextUpdate ==
    \/ UpdateStart
    \/ UpdateLookup
    \/ UpdateInstall
    \/ Tick

SpecUpdate == InitUpdate /\ [][NextUpdate]_vars

\* transfer requests only
NextTransfer ==
    \E c \in Calls :
        \/ TransferCheckAmount(c)
        \/ TransferVerify(c)

SpecTransfer == Init /\ [][NextTransfer]_vars

TypeOK ==
    /\ \A c \in Calls :
         /\ calls[c].method \in {"none", "onchain", "channel", "transfer"}
         /\ calls[c].pc \in {"idle", "get_or_create", "broadcast", "verify", "done"}
         /\ calls[c].after \subseteq Calls
    /\ DOMAIN db \subseteq TxIds
    /\ spent \subseteq KnownTokens
    /\ request.state \in {"Unselected", "Selecting", "Redeeming"}
                           \cup TerminalStates
    /\ request.selected \in MethodNames \cup {"none"}
    /\ request.call \in Calls \cup {0}
    /\ DOMAIN request.headers \subseteq RequestHeaderNames
    /\ updater.today \in Days
    /\ updater.pc \in {"idle", "lookup", "install"}
    /\ updater.outcome \in {"none", "running", "returned", "raised"}
    /\ updater.last_update_check \in StoredValues
    /\ updater.checkedOn \subseteq Days

(***************************************************************************)
(* Vocabulary of the properties.                                           *)
(***************************************************************************)
Done(c) == calls[c].pc = "done"
Result(c) == calls[c].result
IsOnChain(c) == calls[c].method = "onchain"
IsChannel(c) == calls[c].method = "channel"
IsTransfer(c) == calls[c].method = "transfer"
TxOf(c) == calls[c].tx
AddressOf(c) == EffectiveAddress(calls[c].address)

\* output i of the call's transaction pays the call's payout address
ToMerchant(c, i) == TxOf(c).outputs[i].address = AddressOf(c)
Outputs(c) == DOMAIN TxOf(c).outputs

\* an on-chain call whose transaction pays exactly the price to the address
PaysExactly(c) ==
    /\ IsOnChain(c)
    /\ \E i \in Outputs(c) :
         ToMerchant(c, i) /\ TxOf(c).outputs[i].value = calls[c].price

\* the calls that present the transaction h and pay exactly their price
Presenting(h) == {c \in Calls : TxOf(c).hash = h /\ PaysExactly(c)}

\* d arrived, with the evidence of c, after c had returned
Later(d, c) == c \in calls[d].after

\* c is the first redeem of its transaction: every other one came later
FirstRedeem(c) ==
    \A d \in Calls \ {c} :
        (TxOf(d).hash = TxOf(c).hash /\ ~Later(d, c)) => ~PaysExactly(d)

\* d repeats, after c returned, the redeem c made
SecondRedeem(d, c) ==
    /\ Later(d, c) /\ Done(d)
    /\ calls[d].data = calls[c].data
    /\ calls[d].price = calls[c].price
    /\ calls[d].address = calls[c].address
    /\ PaysExactly(c) /\ PaysExactly(d)

PassedLedger == {RetTrue, TransactionBroadcastError}

(***************************************************************************)
(* C1                                                                      *)
(***************************************************************************)
\* C1, as stated: when all the on-chain calls that present one transaction
\* paying exactly the price to the payout address have returned, exactly one
\* of them has succeeded and all the others failed with DuplicatePayment.
C1_ExactlyOneSucceeds ==
    \A h \in TxIds :
        LET group == Presenting(h)
        IN  (group # {} /\ \A c \in group : Done(c)) =>
                /\ Cardinality({c \in group : Result(c) = RetTrue}) = 1
                /\ \A c \in group :
                     Result(c) \in {RetTrue, DuplicatePaymentError}

\* C1, amended: when all the on-chain calls that present one transaction
\* paying exactly the price to the payout address have returned, exactly one
\* of them got past the ledger (it succeeded, or failed with
\* TransactionBroadcastFailure when the broadcast failed), the transaction
\* was broadcast once, and all the others failed with DuplicatePayment.
C1_ExactlyOnePassesLedger ==
    \A h \in TxIds :
        LET group == Presenting(h)
        IN  (group # {} /\ \A c \in group : Done(c)) =>
                /\ Cardinality({c \in group : Result(c) \in PassedLedger}) = 1
                /\ \A c \in group :
                     Result(c) \in PassedLedger \cup {DuplicatePaymentError}
                /\ broadcasts[h] = 1

\* every call presents the same transaction while the others are in flight,
\* and all but one ended in DuplicatePayment
C1_Witness ==
    \E h \in TxIds :
        /\ Presenting(h) = Calls
        /\ \A c \in Calls : Done(c) /\ calls[c].after = {}
        /\ Cardinality({c \in Calls : Result(c) = DuplicatePaymentError})
              = NumCalls - 1

(***************************************************************************)
(* C2                                                                      *)
(***************************************************************************)
\* two calls of one method that present the same evidence
SameEvidence(c, d) ==
    /\ c # d
    /\ calls[c].method # "none"
    /\ calls[c].method = calls[d].method
    /\ IF IsOnChain(c)
       THEN TxOf(c) # NoTx /\ TxOf(c).hash = TxOf(d).hash
       ELSE calls[c].data = calls[d].data

\* C2, as stated: under every method, of the calls that present the same
\* payment evidence at most one succeeds.
C2_AtMostOneSuccess ==
    \A c, d \in Calls :
        SameEvidence(c, d) => ~(Result(c) = RetTrue /\ Result(d) = RetTrue)

\* C2, amended: under the On-Chain and Channel methods, of the calls that
\* present the same payment evidence at most one succeeds (a Transfer redeem
\* succeeds whenever the verification server answers ok).
C2_AtMostOneSuccessOnChainChannel ==
    \A c, d \in Calls :
        (SameEvidence(c, d) /\ ~IsTransfer(c)) =>
            ~(Result(c) = RetTrue /\ Result(d) = RetTrue)

\* a transaction and a token each presented again after a success
C2_Witness ==
    \E c, d \in Calls :
        /\ SameEvidence(c, d) /\ ~IsTransfer(c)
        /\ Done(c) /\ Done(d)
        /\ Result(c) = RetTrue
        /\ Result(d) \in {DuplicatePaymentError, RedeemError}

(***************************************************************************)
(* C3                                                                      *)
(***************************************************************************)
\* C3, as stated: the first on-chain redeem of a transaction that pays
\* exactly the price to the payout address succeeds, and a second redeem of
\* the same payload at the same price fails with DuplicatePayment.
C3_FirstSucceedsSecondDuplicate ==
    \A c \in Calls :
        /\ (Done(c) /\ PaysExactly(c) /\ FirstRedeem(c)) => Result(c) = RetTrue
        /\ \A d \in Calls :
             SecondRedeem(d, c) => Result(d) = DuplicatePaymentError

\* C3, amended: the first on-chain redeem of a transaction that pays exactly
\* the price to the payout address succeeds, or fails with
\* TransactionBroadcastFailure when the broadcast fails; either way a second
\* redeem of the same payload at the same price fails with DuplicatePayment.
C3_FirstPassesSecondDuplicate ==
    \A c \in Calls :
        /\ (Done(c) /\ PaysExactly(c) /\ FirstRedeem(c)) =>
               Result(c) \in PassedLedger
        /\ \A d \in Calls :
             SecondRedeem(d, c) => Result(d) = DuplicatePaymentError

\* a first redeem that succeeded and its repetition that was refused
C3_Witness ==
    \E c, d \in Calls :
        /\ PaysExactly(c) /\ FirstRedeem(c) /\ Result(c) = RetTrue
        /\ SecondRedeem(d, c)
        /\ Result(d) = DuplicatePaymentError

(***************************************************************************)
(* C4                                                                      *)
(***************************************************************************)
\* the on-chain calls other than c that present c's transaction
SameTx(c) ==
    {d \in Calls \ {c} : IsOnChain(d) /\ TxOf(d).hash = TxOf(c).hash}

BroadcastFailed(c) ==
    IsOnChain(c) /\ Done(c) /\ Result(c) = TransactionBroadcastError

\* C4, as stated: after a redeem failed with TransactionBroadcastFailure the
\* record of its transaction stays in the ledger, and every later redeem of
\* the same transaction fails with DuplicatePayment without a broadcast.
C4_LaterRedeemsDuplicate ==
    \A c \in Calls :
        BroadcastFailed(c) =>
            /\ TxOf(c).hash \in DOMAIN db
            /\ broadcasts[TxOf(c).hash] = 1
            /\ \A d \in SameTx(c) :
                 (Later(d, c) /\ Done(d)) => Result(d) = DuplicatePaymentError

\* C4, amended: after a redeem failed with TransactionBroadcastFailure the
\* record of its transaction stays in the ledger; every other redeem of the
\* same transaction fails, with DuplicatePayment when it passes the
\* destination and amount checks and with their error otherwise, and the
\* transaction is never broadcast again.
C4_RecordStaysCommitted ==
    \A c \in Calls :
        BroadcastFailed(c) =>
            /\ TxOf(c).hash \in DOMAIN db
            /\ broadcasts[TxOf(c).hash] = 1
            /\ \A d \in SameTx(c) :
                 /\ calls[d].pc # "broadcast"
                 /\ Done(d) =>
                      Result(d) = IF PaysExactly(d) THEN DuplicatePaymentError
                                  ELSE OnChainValidation(calls[d].price,
                                           calls[d].data, calls[d].address)

\* a broadcast failed and the transaction was presented again afterwards
C4_Witness ==
    \E c \in Calls :
        /\ BroadcastFailed(c)
        /\ \E d \in SameTx(c) :
             /\ Later(d, c) /\ Done(d) /\ PaysExactly(d)
             /\ Result(d) = DuplicatePaymentError

(***************************************************************************)
(* C5                                                                      *)
(***************************************************************************)
\* the transaction pays the payout address, but never the price
PaysOtherAmount(c) ==
    /\ IsOnChain(c)
    /\ \E i \in Outputs(c) : ToMerchant(c, i)
    /\ \A i \in Outputs(c) :
         ToMerchant(c, i) => TxOf(c).outputs[i].value # calls[c].price

\* C5: an on-chain redeem of a transaction whose output to the payout
\* address has a value other than the price fails with InsufficientPayment,
\* whether the value is above or below the price.
C5_WrongAmountInsufficient ==
    \A c \in Calls :
        (Done(c) /\ PaysOtherAmount(c)) => Result(c) = InsufficientPaymentError

\* one redeem overpaid by one and one underpaid by one, both refused
C5_Witness ==
    \E c, d \in Calls :
        /\ PaysOtherAmount(c) /\ PaysOtherAmount(d) /\ Done(c) /\ Done(d)
        /\ \E i \in Outputs(c) :
             ToMerchant(c, i) /\ TxOf(c).outputs[i].value = calls[c].price + 1
        /\ \E i \in Outputs(d) :
             ToMerchant(d, i) /\ TxOf(d).outputs[i].value = calls[d].price - 1
        /\ Result(c) = InsufficientPaymentError
        /\ Result(d) = InsufficientPaymentError

(***************************************************************************)
(* C6                                                                      *)
(***************************************************************************)
\* the transaction pays the price, to an address that is not the payout
\* address, and pays the payout address nothing
PaysSomeoneElse(c) ==
    /\ IsOnChain(c)
    /\ \A i \in Outputs(c) : ~ToMerchant(c, i)
    /\ \E i \in Outputs(c) : TxOf(c).outputs[i].value = calls[c].price

\* C6: an on-chain redeem of a transaction that pays the right amount to an
\* address other than the payout address fails with InvalidPaymentParameter.
C6_WrongAddressInvalid ==
    \A c \in Calls :
        (Done(c) /\ PaysSomeoneElse(c)) =>
            Result(c) = InvalidPaymentParameterError

\* the price was paid to the other address while the method's own payout
\* address was in force
C6_Witness ==
    \E c \in Calls :
        /\ PaysSomeoneElse(c) /\ Done(c)
        /\ calls[c].address = NoAddress
        /\ Result(c) = InvalidPaymentParameterError

(***************************************************************************)
(* C7                                                                      *)
(***************************************************************************)
\* the transfer decodes and declares an amount other than the price
DeclaresOtherAmount(c) ==
    /\ IsTransfer(c)
    /\ json_loads(calls[c].data).json
    /\ json_loads(calls[c].data).amount # {}
    /\ json_loads(calls[c].data).amount # {calls[c].price}

\* C7: a Transfer redeem whose declared amount differs from the price fails
\* with InsufficientPayment and makes no call to the verification server.
C7_AmountMismatchNoPost ==
    \A c \in Calls :
        DeclaresOtherAmount(c) =>
            /\ calls[c].posted = 0
            /\ calls[c].pc # "verify"
            /\ Done(c) => Result(c) = InsufficientPaymentError

\* a transfer declaring another amount was refused without a post
C7_Witness ==
    \E c \in Calls :
        /\ DeclaresOtherAmount(c) /\ Done(c)
        /\ Result(c) = InsufficientPaymentError /\ calls[c].posted = 0

(***************************************************************************)
(* C8                                                                      *)
(***************************************************************************)
\* the call got an answer from the verification server
Answered(c) ==
    IsTransfer(c) /\ Done(c) /\ calls[c].posted = 1 /\ calls[c].post.connected

\* C8: in a Transfer redeem with a matching amount an ok answer yields
\* success, a not-ok answer with a diagnostic message yields
\* InvalidPaymentParameter with that message, and a not-ok answer without
\* one yields ServerError.
C8_AnswerDecidesResult ==
    \A c \in Calls :
        Answered(c) =>
            IF calls[c].post.ok THEN Result(c) = RetTrue
            ELSE IF calls[c].post.body.message # {}
                 THEN /\ Result(c) = InvalidPaymentParameterError
                      /\ {calls[c].msg} = calls[c].post.body.message
            ELSE Result(c) = ServerError

(***************************************************************************)
(* C9                                                                      *)
(***************************************************************************)
\* C9: a Transfer redeem whose call to the verification server fails to
\* connect fails with ServerError.
C9_UnreachableServerError ==
    \A c \in Calls :
        (IsTransfer(c) /\ Done(c) /\ calls[c].posted = 1
            /\ ~calls[c].post.connected) => Result(c) = ServerError

(***************************************************************************)
(* C10                                                                     *)
(***************************************************************************)
\* the transfer is no JSON, or a JSON object without an amount
Undecodable(c) ==
    /\ IsTransfer(c)
    /\ ~json_loads(calls[c].data).json \/ json_loads(calls[c].data).amount = {}

\* C10: a Transfer redeem of a malformed payload, or of one without the
\* amount field, fails with InvalidPaymentParameter before the verification
\* server is called.
C10_MalformedInvalidParameter ==
    \A c \in Calls :
        (Undecodable(c) /\ Done(c)) =>
            /\ Result(c) = InvalidPaymentParameterError
            /\ calls[c].posted = 0

(***************************************************************************)
(* C11                                                                     *)
(***************************************************************************)
TokenOf(c) == calls[c].data

FirstPresentation(c) == calls[c].after = {}

\* C11: a channel redeem whose redeemed amount differs from the price
\* returns False without raising; a token the channel server does not accept
\* makes the call raise the server's own exception, never one of the payment
\* errors of this module.
C11_MismatchFalseUnknownRaises ==
    \A c \in Calls :
        (Done(c) /\ IsChannel(c)) =>
            /\ Result(c) \in {RetTrue, RetFalse, RedeemError}
            /\ (TokenOf(c) \notin KnownTokens) => Result(c) = RedeemError
            /\ (/\ TokenOf(c) \in KnownTokens
                /\ FirstPresentation(c)
                /\ TokenAmount(TokenOf(c)) # calls[c].price)
                   => Result(c) = RetFalse
            /\ (Result(c) = RetFalse)
                   => TokenAmount(TokenOf(c)) # calls[c].price

\* one call was answered False for a mismatch and another raised for an
\* unknown token
C11_Witness ==
    \E c, d \in Calls :
        /\ Done(c) /\ IsChannel(c) /\ Result(c) = RetFalse
        /\ TokenAmount(TokenOf(c)) # calls[c].price
        /\ Done(d) /\ IsChannel(d) /\ Result(d) = RedeemError
        /\ TokenOf(d) \notin KnownTokens

(***************************************************************************)
(* C12                                                                     *)
(***************************************************************************)
\* the failure kinds of the layer's taxonomy
TaxonomyKinds ==
    {InvalidPaymentParameterError, InsufficientPaymentError,
     DuplicatePaymentError, TransactionBroadcastError, ServerError}

\* the request's redeem has returned and the dispatcher has acted on it
Redeemed == request.state \in TerminalStates /\ request.call # 0

\* C12: every failure kind of the taxonomy is a PaymentError, so a request
\* whose redeem failed with one of them is Rejected with that kind surfaced.
C12_TaxonomyKindsRejected ==
    (Redeemed /\ calls[request.call].result \in TaxonomyKinds) =>
        /\ IsPaymentError(calls[request.call].result)
        /\ request.state = "Rejected"
        /\ request.surfaced = calls[request.call].result

(***************************************************************************)
(* C13                                                                     *)
(***************************************************************************)
\* the names each method declares as required
RequiredNames(m) ==
    CASE m = "onchain"  -> {"Bitcoin-Transaction"}
      [] m = "channel"  -> {"Bitcoin-Micropayment-Token"}
      [] m = "transfer" -> {"Bitcoin-Transfer", "Authorization"}

Present(m) == RequiredNames(m) \subseteq DOMAIN request.headers

SelectStep ==
    (request.state = "Selecting") =>
        /\ \A m \in MethodNames : request'.selects[m] = Present(m)
        /\ request'.headers = request.headers
        /\ UNCHANGED <<calls, db, broadcasts, spent, config>>

\* C13: the selection step answers true for a method exactly when every
\* name the method requires is among the names of the request's headers,
\* whatever their values and whatever other headers there are, and it
\* changes neither the headers nor any state of the methods.
C13_SelectsIffAllRequiredPresent == [][SelectStep]_vars

\* selection was answered for a request that carries one of the transfer
\* method's two names, next to the name of another method
C13_Witness ==
    /\ request.state \notin {"Unselected", "Selecting"}
    /\ "Bitcoin-Transfer" \in DOMAIN request.headers
    /\ "Authorization" \notin DOMAIN request.headers
    /\ "Bitcoin-Transaction" \in DOMAIN request.headers
    /\ ~request.selects["transfer"]
    /\ request.selects["onchain"]

(***************************************************************************)
(* C14                                                                     *)
(***************************************************************************)
\* the calls that redeem_payment has been entered for
Started == {c \in Calls : calls[c].pc # "idle"}

\* m comes first, in the order of the methods, among those whose required
\* names are present
FirstPresent(m) ==
    \E i \in DOMAIN Methods :
        /\ Methods[i] = m /\ Present(m)
        /\ \A j \in DOMAIN Methods : j < i => ~Present(Methods[j])

\* C14: a request past selection is redeemed by the first method, in the
\* fixed order, whose required names are present, and by no other method;
\* a request none of the methods selects ends in AwaitingPayment without a
\* redeem call.
C14_FirstSelectingRedeems ==
    /\ (request.state \in {"Redeeming", "Settled", "Rejected", "Failed"}) =>
           /\ FirstPresent(request.selected)
           /\ \A c \in Started : calls[c].method = request.selected
           /\ Cardinality(Started) <= 1
    /\ (request.state \in {"Selecting", "AwaitingPayment"}) => Started = {}
    /\ (request.state \notin {"Unselected", "Selecting"}) =>
           ((request.state = "AwaitingPayment")
               <=> \A m \in MethodNames : ~Present(m))

\* the headers of all three methods were present, and the request was
\* redeemed by the first method alone
C14_Witness ==
    /\ \A m \in MethodNames : Present(m)
    /\ request.state \in {"Settled", "Rejected", "Failed"}
    /\ request.selected = Methods[1]
    /\ \E c \in Started : calls[c].method = Methods[1]

(***************************************************************************)
(* C15                                                                     *)
(***************************************************************************)
\* the headers the interface table gives each method's advertisement
AdvertisedNames(m) ==
    CASE m = "onchain"  -> {"Price", "Bitcoin-Address"}
      [] m = "channel"  -> {"Price", "Bitcoin-Micropayment-Server"}
      [] m = "transfer" -> {"Price", "Bitcoin-Address", "Username"}

C16_ConfigurationFixed ==
    /\ config.address = PayoutAddress
    /\ config.seller_username = ConfigAtConstruction.seller_username
    /\ config.verification_url = ConfigAtConstruction.verification_url
    /\ config.endpoint_path = ConfigAtConstruction.endpoint_path

\* a request that named another payout address has been redeemed on chain
C16_Witness ==
    /\ request.state \in {"Settled", "Rejected"}
    /\ request.selected = "onchain"
    /\ request.address = OtherAddress
    /\ config.address = PayoutAddress

(***************************************************************************)
(* C17                                                                     *)
(***************************************************************************)
\* c returns in this step with the error of a failed validation
FailsValidation(c) ==
    /\ calls[c].pc # "done" /\ calls'[c].pc = "done"
    /\ calls'[c].result \in {InvalidPaymentParameterError,
                             InsufficientPaymentError}

\* c, whose transaction passed the three checks, passes the ledger in this
\* step and the ledger gains the record of its transaction
RecordsValidated(c) ==
    /\ calls[c].pc = "get_or_create" /\ calls'[c].pc = "broadcast"
    /\ PaysExactly(c)
    /\ TxOf(c).hash \notin DOMAIN db
    /\ DOMAIN db' = DOMAIN db \cup {TxOf(c).hash}

LedgerStep ==
    /\ \A t \in DOMAIN db : t \in DOMAIN db' /\ db'[t] = db[t]
    /\ \A c \in Calls : FailsValidation(c) => db' = db
    /\ (db' # db) => \E c \in Calls : RecordsValidated(c)

\* C17: the ledger gains a record only in the get-or-create of a redeem
\* whose parse, destination and amount checks passed; a redeem that fails
\* with InvalidPaymentParameter or InsufficientPayment leaves the ledger as
\* it was; no step deletes or overwrites a record.
C17_RecordOnlyAfterValidation == [][LedgerStep]_vars

\* a redeem was refused for its amount, its transaction is not in the
\* ledger, and the ledger holds the record of another redeem
C17_Witness ==
    \E c, d \in Calls :
        /\ Done(c) /\ IsOnChain(c) /\ Result(c) = InsufficientPaymentError
        /\ TxOf(c).hash \notin DOMAIN db
        /\ IsOnChain(d) /\ PaysExactly(d) /\ TxOf(d).hash \in DOMAIN db

(***************************************************************************)
(* C18                                                                     *)
(***************************************************************************)
\* the redeems of h that got past the ledger and have returned
BroadcastersOf(h) ==
    {c \in Calls : /\ IsOnChain(c) /\ Done(c)
                   /\ TxOf(c).hash = h
                   /\ Result(c) \in PassedLedger}

\* C18: a transaction that was handed to the broadcast collaborator, or is
\* about to be, has its record in the ledger; the broadcasts of a
\* transaction are those of the redeems that passed every check, so a redeem
\* that failed the parse, destination, amount or duplicate check made none.
C18_InsertPrecedesBroadcast ==
    /\ \A c \in Calls :
         calls[c].pc = "broadcast" => TxOf(c).hash \in DOMAIN db
    /\ \A h \in TxIds :
         /\ broadcasts[h] > 0 => h \in DOMAIN db
         /\ broadcasts[h] = Cardinality(BroadcastersOf(h))

\* a transaction was broadcast once, and redeems of it have been refused as
\* duplicate and for the amount
C18_Witness ==
    \E h \in TxIds, c, d \in Calls :
        /\ broadcasts[h] > 0 /\ h \in DOMAIN db
        /\ IsOnChain(c) /\ Done(c) /\ TxOf(c).hash = h
        /\ Result(c) = DuplicatePaymentError
        /\ IsOnChain(d) /\ Done(d) /\ TxOf(d).hash = h
        /\ Result(d) = InsufficientPaymentError

(***************************************************************************)
(* C19                                                                     *)
(***************************************************************************)
\* when c arrived, a redeem of the same transaction had passed the ledger
RecordedBefore(c) == \E d \in calls[c].after : Result(d) \in PassedLedger

\* C19: an on-chain redeem fails with the error of the first failing step
\* in the order parse, destination, amount, duplicate: a transaction that
\* does not parse or pays the payout address nothing is an invalid
\* parameter whatever its amounts, one that pays it another amount is an
\* insufficient payment even when the ledger holds it already, and only a
\* transaction that passed the three checks is a duplicate.
C19_EarliestFailingStep ==
    \A c \in Calls :
        (Done(c) /\ IsOnChain(c)) =>
            /\ (TxOf(c) = NoTx) => Result(c) = InvalidPaymentParameterError
            /\ (TxOf(c) # NoTx /\ \A i \in Outputs(c) : ~ToMerchant(c, i))
                  => Result(c) = InvalidPaymentParameterError
            /\ PaysOtherAmount(c) => Result(c) = InsufficientPaymentError
            /\ (PaysExactly(c) /\ RecordedBefore(c))
                  => Result(c) = DuplicatePaymentError
            /\ (Result(c) = DuplicatePaymentError) => PaysExactly(c)

\* a recorded transaction came back at another price and was refused for the
\* amount, and a transaction paying neither the address nor the price was
\* refused as an invalid parameter
C19_Witness ==
    \E c, d \in Calls :
        /\ Done(c) /\ PaysOtherAmount(c) /\ RecordedBefore(c)
        /\ Result(c) = InsufficientPaymentError
        /\ Done(d) /\ IsOnChain(d) /\ TxOf(d) # NoTx
        /\ \A i \in Outputs(d) :
             ~ToMerchant(d, i) /\ TxOf(d).outputs[i].value # calls[d].price
        /\ Result(d) = InvalidPaymentParameterError

(***************************************************************************)
(* C20                                                                     *)
(***************************************************************************)
\* C20: whatever the order of the on-chain redeems and the outcome of the
\* broadcasts, no transaction is handed to the broadcast collaborator more
\* than once.
C20_BroadcastAtMostOnce == \A h \in TxIds : broadcasts[h] <= 1

\* two redeems of one transaction, in flight together, both returned and
\* the transaction was broadcast once
C20_Witness ==
    \E c, d \in Calls :
        /\ c # d /\ PaysExactly(c) /\ PaysExactly(d)
        /\ TxOf(c).hash = TxOf(d).hash
        /\ Done(c) /\ Done(d)
        /\ ~Later(c, d) /\ ~Later(d, c)
        /\ broadcasts[TxOf(c).hash] = 1

(***************************************************************************)
(* C21                                                                     *)
(***************************************************************************)
\* c is the first redeem of a token the channel server knows, at a price
\* other than the token's amount
MismatchedFirst(c) ==
    /\ IsChannel(c) /\ Done(c)
    /\ TokenOf(c) \in KnownTokens
    /\ FirstPresentation(c)
    /\ TokenAmount(TokenOf(c)) # calls[c].price

\* C21: the channel server redeems the token before the amounts are
\* compared: the first redeem of a token at a price other than its amount
\* returns False and leaves the token spent, and every later redeem of that
\* token, at the matching price too, raises the server's exception.
C21_MismatchConsumesToken ==
    \A c \in Calls :
        MismatchedFirst(c) =>
            /\ Result(c) = RetFalse
            /\ TokenOf(c) \in spent
            /\ \A d \in Calls :
                 (IsChannel(d) /\ Done(d) /\ Later(d, c))
                     => Result(d) = RedeemError

\* a token was refused at the wrong price and then, at its own amount,
\* raised the server's exception
C21_Witness ==
    \E c, d \in Calls :
        /\ MismatchedFirst(c) /\ Result(c) = RetFalse
        /\ IsChannel(d) /\ Done(d) /\ Later(d, c)
        /\ calls[d].price = TokenAmount(TokenOf(d))
        /\ Result(d) = RedeemError

(***************************************************************************)
(* C22                                                                     *)
(***************************************************************************)
\* the call in hand, or the last one made, is not forced and began on a day
\* on which a check had been performed
LaterUnforced ==
    /\ updater.outcome # "none"
    /\ ~updater.force
    /\ updater.prior

\* C22: a call that is not forced and begins on a day on which a check was
\* performed, however that check ended, makes no version lookup and no
\* install and returns update_available False and update_successful None;
\* no day sees two checks of calls that are not forced; a forced call
\* performs the check.
C22_OneUnforcedCheckPerDay ==
    /\ LaterUnforced =>
         /\ updater.pc = "idle" /\ updater.outcome = "returned"
         /\ updater.lookups = 0 /\ updater.installs = 0
         /\ updater.update_available = FALSE
         /\ updater.update_successful = "None"
    /\ ~updater.again
    /\ (updater.outcome # "none" /\ updater.force) =>
         /\ updater.day \in updater.checkedOn
         /\ updater.last_update_check \in {strftime(d) : d \in Days}
         /\ updater.pc = "lookup" \/ updater.lookups = 1

\* a check of the day failed, and a later call of that day, not forced,
\* returned without checking
C22_Witness ==
    /\ LaterUnforced
    /\ updater.outcome = "returned"
    /\ updater.day \in updater.failedOn
    /\ updater.day \in updater.unforced
    /\ updater.lookups = 0
====
